---- MODULE Spec2Model ----
(***************************************************************************)
(* State-machine model of the ironic-inspector node cache                  *)
(* (ironic_inspector/node_cache.py) and of the introspection request       *)
(* handler with its background task (ironic_inspector/introspect.py).      *)
(*                                                                         *)
(* The SQLite database is three tables: nodes, attributes, options.  Each  *)
(* "with _db() as db" block is one transaction: it commits when the block  *)
(* ends normally and rolls back when an exception leaves it.  Remote calls *)
(* (Ironic client, firewall) are the points where a background task can be *)
(* overtaken by other requests, by other tasks and by the periodic sweep.  *)
(***************************************************************************)
EXTENDS Integers, Sequences, FiniteSets, TLC

\* ------------------------------------------------------------ bounds
MaxTime == 3      \* the clock runs from 1 to MaxTime
MaxTasks == 2     \* background tasks ever spawned
MaxVals == 2      \* longest value list passed to add_node / add_attribute / find_node

\* ------------------------------------------------------------ domains
UUIDs == {"u1", "u2"}
BMC_ATTRIBUTE == "bmc_address"
MACS_ATTRIBUTE == "mac"
Names == {BMC_ATTRIBUTE, MACS_ATTRIBUTE}
BmcValues == {"10.0.0.1"}
MacValues == {"aa", "bb"}
ValuesOf(name) == IF name = BMC_ATTRIBUTE THEN BmcValues ELSE MacValues
\* sorted(attributes.items()) of find_node: names in ascending order
SortedNames == <<BMC_ATTRIBUTE, MACS_ATTRIBUTE>>

\* SQL NULL / Python None.  Timestamps are positive, so 0 encodes NULL in a
\* REAL column; TEXT columns use a reserved string.
NullTime == 0
NullText == "NULL"
NoUuid == "-"

\* CONF.node_status_keep_time and CONF.timeout, in ticks
KeepTime == 1
Timeout == 1

\* values of CONF.timeout: zero and negative ones disable the timeout
TimeoutValues == {-1, 0, Timeout}

\* error texts recorded in nodes.error
ErrTimeout == "Introspection timeout"
ErrDuplicate == "Some or all of mac's values are already on introspection"
ErrPower == "Failed to power on node, check it's power management configuration"
ErrUnexpected == "Unexpected exception in background introspection thread"

\* new_ipmi_credentials: None is the empty tuple, credentials a (user, password) pair
NoCredentials == <<>>
Credentials == <<"user", "password">>
CredentialValues == {NoCredentials, Credentials}
OPTION_CREDENTIALS == "new_ipmi_credentials"

\* value lists of at most MaxVals entries (a scalar value is the one-entry list,
\* None / "" / [] the empty one)
ValueLists(name) == UNION {[1..n -> ValuesOf(name)] : n \in 0..MaxVals}
\* keyword arguments of add_node: bmc_address a scalar or None, any list of MACs
MacLists == ValueLists(MACS_ATTRIBUTE)
BmcArgs == {l \in ValueLists(BMC_ATTRIBUTE) : Len(l) <= 1}
AttributeArgs ==
  {[n \in Names |-> IF n = BMC_ATTRIBUTE THEN b ELSE m] : b \in BmcArgs, m \in MacLists}
\* list(node_info.ports(ironic)): the keys of a dict, so no MAC twice, in any order
PortLists ==
  {l \in MacLists : \A i, j \in DOMAIN l : l[i] = l[j] => i = j}
\* keyword arguments of find_node; a query does not depend on the order or
\* on repetitions in a list, so one list per set of values
Criteria ==
  {c \in [Names -> {<<>>, <<"10.0.0.1">>, <<"aa">>, <<"bb">>, <<"aa", "bb">>}] :
     \A n \in Names : \A i \in DOMAIN c[n] : c[n][i] \in ValuesOf(n)}

VARIABLES
  nodes,       \* table nodes: uuid -> [started_at, finished_at, error]
  attributes,  \* table attributes: set of rows [name, value, uuid]
  options,     \* table options: set of rows [uuid, name, value]
  tasks,       \* background tasks: the NodeInfo each holds and its position
  now,         \* time.time()
  timeout      \* CONF.timeout

vars == <<nodes, attributes, options, tasks, now, timeout>>

Db == [nodes |-> nodes, attributes |-> attributes, options |-> options]

Range(s) == {s[i] : i \in DOMAIN s}

\* ------------------------------------------------------------ JSON of option values
JsonDumps(v) == IF v = NoCredentials THEN "null" ELSE "[\"user\", \"password\"]"
JsonLoads(s) == IF s = "null" THEN NoCredentials ELSE Credentials

\* ------------------------------------------------------------ transactions
\* mutant of WithDb: the transaction is committed on an exception too
WithDbAlwaysCommit(db0, r) == r

\* sqlite3 connection as context manager: commit on normal exit, rollback
\* when an exception leaves the block
WithDb(db0, r) == IF r.ok THEN r ELSE [r EXCEPT !.db = db0]

\* mutant of MaybeDb: the insert runs outside any transaction scope, so
\* nothing is rolled back
MaybeDbNoTransaction(own, db0, r) == r

\* _maybe_db(database): an own transaction when no connection is passed,
\* otherwise the caller's transaction is used and left open
MaybeDb(own, db0, r) == IF own THEN WithDb(db0, r) ELSE r

\* primary key (name, value) of table attributes
HasKey(attrs, name, v) == \E r \in attrs : r.name = name /\ r.value = v

\* mutant of InsertAttribute: the primary key is (name, value, uuid)
InsertAttributeKeyWithUuid(attrs, name, v, uuid) ==
  IF [name |-> name, value |-> v, uuid |-> uuid] \in attrs
  THEN [ok |-> FALSE, attributes |-> attrs]
  ELSE [ok |-> TRUE,
        attributes |-> attrs \cup {[name |-> name, value |-> v, uuid |-> uuid]}]

\* one "insert into attributes(name, value, uuid)": sqlite3.IntegrityError
\* when the primary key exists
InsertAttribute(attrs, name, v, uuid) ==
  IF HasKey(attrs, name, v)
  THEN [ok |-> FALSE, attributes |-> attrs]
  ELSE [ok |-> TRUE,
        attributes |-> attrs \cup {[name |-> name, value |-> v, uuid |-> uuid]}]

\* mutant of ExecuteMany: "insert or ignore", a conflicting row is skipped
RECURSIVE ExecuteManyOrIgnore(_, _, _, _)
ExecuteManyOrIgnore(attrs, name, vals, uuid) ==
  IF vals = <<>> THEN [ok |-> TRUE, attributes |-> attrs]
  ELSE ExecuteManyOrIgnore(
         IF HasKey(attrs, name, Head(vals)) THEN attrs
         ELSE attrs \cup {[name |-> name, value |-> Head(vals), uuid |-> uuid]},
         name, Tail(vals), uuid)

\* db.executemany(insert ...): rows are inserted in order, the first
\* violation raises and leaves the rows inserted so far in the transaction
RECURSIVE ExecuteMany(_, _, _, _)
ExecuteMany(attrs, name, vals, uuid) ==
  IF vals = <<>> THEN [ok |-> TRUE, attributes |-> attrs]
  ELSE LET r == InsertAttribute(attrs, name, Head(vals), uuid)
       IN IF r.ok THEN ExecuteMany(r.attributes, name, Tail(vals), uuid) ELSE r

\* NodeInfo.add_attribute(name, value, database)
add_attribute(db, uuid, name, vals, own) ==
  LET r == ExecuteMany(db.attributes, name, vals, uuid)
  IN MaybeDb(own, db,
             [ok |-> r.ok, db |-> [db EXCEPT !.attributes = r.attributes]])

\* the loop of add_node over attributes.items(); empty values are skipped
RECURSIVE AddNodeAttributes(_, _, _, _)
AddNodeAttributes(db, uuid, attrs, names) ==
  IF names = {} THEN [ok |-> TRUE, db |-> db]
  ELSE LET n == CHOOSE x \in names : TRUE
       IN IF attrs[n] = <<>>
          THEN AddNodeAttributes(db, uuid, attrs, names \ {n})
          ELSE LET r == add_attribute(db, uuid, n, attrs[n], FALSE)
               IN IF r.ok THEN AddNodeAttributes(r.db, uuid, attrs, names \ {n})
                  ELSE r

FreshRow(t) == [started_at |-> t, finished_at |-> NullTime, error |-> NullText]

\* mutant of ReplaceRow: "delete from attributes where uuid=?" is missing
ReplaceRowKeepAttributes(db, uuid, t) ==
  [nodes |-> [u \in (DOMAIN db.nodes) \cup {uuid} |->
                IF u = uuid THEN FreshRow(t) ELSE db.nodes[u]],
   attributes |-> db.attributes,
   options |-> {r \in db.options : r.uuid # uuid}]

\* the three deletes and the insert that open add_node's transaction
ReplaceRow(db, uuid, t) ==
  [nodes |-> [u \in (DOMAIN db.nodes) \cup {uuid} |->
                IF u = uuid THEN FreshRow(t) ELSE db.nodes[u]],
   attributes |-> {r \in db.attributes : r.uuid # uuid},
   options |-> {r \in db.options : r.uuid # uuid}]

\* add_node(uuid, **attributes), started_at = t
add_node(db, uuid, attrs, t) ==
  WithDb(db, AddNodeAttributes(ReplaceRow(db, uuid, t), uuid, attrs, Names))

\* NodeInfo.set_option(name, value)
set_option(db, uuid, name, value) ==
  [db EXCEPT !.options =
     {r \in db.options : ~(r.uuid = uuid /\ r.name = name)}
       \cup {[uuid |-> uuid, name |-> name, value |-> JsonDumps(value)]}]

\* mutant of finished: "delete from attributes where uuid=?" is missing
finishedKeepAttributes(db, uuid, error, t) ==
  [nodes |-> [u \in DOMAIN db.nodes |->
                IF u = uuid
                THEN [db.nodes[u] EXCEPT !.finished_at = t, !.error = error]
                ELSE db.nodes[u]],
   attributes |-> db.attributes,
   options |-> {r \in db.options : r.uuid # uuid}]

\* NodeInfo.finished(error) at time t
finished(db, uuid, error, t) ==
  [nodes |-> [u \in DOMAIN db.nodes |->
                IF u = uuid
                THEN [db.nodes[u] EXCEPT !.finished_at = t, !.error = error]
                ELSE db.nodes[u]],
   attributes |-> {r \in db.attributes : r.uuid # uuid},
   options |-> {r \in db.options : r.uuid # uuid}]

\* get_node(uuid)
get_node(db, uuid) ==
  IF uuid \in DOMAIN db.nodes
  THEN [res |-> "ok", uuid |-> uuid, row |-> db.nodes[uuid]]
  ELSE [res |-> "NotFound", uuid |-> uuid, row |-> FreshRow(NullTime)]

\* active_macs()
active_macs(db) == {r.value : r \in {x \in db.attributes : x.name = MACS_ATTRIBUTE}}

\* "select distinct uuid from attributes where name=? AND value=? OR ..."
SelectUuids(db, name, vals) ==
  {r.uuid : r \in {x \in db.attributes :
                     x.name = name /\ \E i \in DOMAIN vals : vals[i] = x.value}}

\* mutant of FindLoop: a node must match every name given (intersection)
RECURSIVE FindLoopAllNames(_, _, _, _)
FindLoopAllNames(db, criteria, names, found) ==
  IF names = <<>> THEN found
  ELSE IF criteria[Head(names)] = <<>>
       THEN FindLoopAllNames(db, criteria, Tail(names), found)
       ELSE LET rows == SelectUuids(db, Head(names), criteria[Head(names)])
                first == \A i \in DOMAIN SortedNames :
                           (SortedNames[i] = Head(names)) =>
                             \A j \in 1..(i - 1) : criteria[SortedNames[j]] = <<>>
            IN FindLoopAllNames(db, criteria, Tail(names),
                                IF first THEN rows ELSE found \cap rows)

\* the loop of find_node over the sorted criteria
RECURSIVE FindLoop(_, _, _, _)
FindLoop(db, criteria, names, found) ==
  IF names = <<>> THEN found
  ELSE IF criteria[Head(names)] = <<>>
       THEN FindLoop(db, criteria, Tail(names), found)
       ELSE FindLoop(db, criteria, Tail(names),
                     found \cup SelectUuids(db, Head(names), criteria[Head(names)]))

\* find_node(**attributes)
find_node(db, criteria) ==
  LET found == FindLoop(db, criteria, SortedNames, {})
  IN IF found = {}
     THEN [res |-> "NotFoundInCache", uuid |-> NoUuid, at |-> NullTime]
     ELSE IF Cardinality(found) > 1
     THEN [res |-> "Multiple", uuid |-> NoUuid, at |-> NullTime]
     ELSE LET uuid == CHOOSE u \in found : TRUE
          IN IF uuid \notin DOMAIN db.nodes
             THEN [res |-> "NoRow", uuid |-> uuid, at |-> NullTime]
             ELSE IF db.nodes[uuid].finished_at # NullTime
             THEN [res |-> "AlreadyFinished", uuid |-> uuid,
                   at |-> db.nodes[uuid].finished_at]
             ELSE [res |-> "ok", uuid |-> uuid, at |-> db.nodes[uuid].started_at]

\* mutant of DropOutdated: a NULL finished_at compares as 0, below the threshold
DropOutdatedNullAsZero(db, t) ==
  LET keep == {u \in DOMAIN db.nodes : ~(db.nodes[u].finished_at < t - KeepTime)}
  IN [db EXCEPT !.nodes = [u \in keep |-> db.nodes[u]]]

\* first transaction of clean_up: "delete from nodes where finished_at < ?"
DropOutdated(db, t) ==
  LET keep == {u \in DOMAIN db.nodes :
                 ~(db.nodes[u].finished_at # NullTime
                   /\ db.nodes[u].finished_at < t - KeepTime)}
  IN [db EXCEPT !.nodes = [u \in keep |-> db.nodes[u]]]

\* mutant of SelectTimedOut: "and finished_at is null" is missing
SelectTimedOutIgnoreFinished(db, threshold) ==
  {u \in DOMAIN db.nodes : db.nodes[u].started_at < threshold}

\* "select uuid from nodes where started_at < ? and finished_at is null"
SelectTimedOut(db, threshold) ==
  {u \in DOMAIN db.nodes :
     db.nodes[u].started_at < threshold /\ db.nodes[u].finished_at = NullTime}

\* mutant of FinishTimedOut: "delete from options where uuid=?" is missing
FinishTimedOutKeepOptions(db, uuids, threshold, t) ==
  [nodes |-> [u \in DOMAIN db.nodes |->
                IF db.nodes[u].started_at < threshold
                   /\ db.nodes[u].finished_at = NullTime
                THEN [db.nodes[u] EXCEPT !.finished_at = t, !.error = ErrTimeout]
                ELSE db.nodes[u]],
   attributes |-> {r \in db.attributes : r.uuid \notin uuids},
   options |-> db.options]

\* second transaction of clean_up, for a non-empty selection
FinishTimedOut(db, uuids, threshold, t) ==
  [nodes |-> [u \in DOMAIN db.nodes |->
                IF db.nodes[u].started_at < threshold
                   /\ db.nodes[u].finished_at = NullTime
                THEN [db.nodes[u] EXCEPT !.finished_at = t, !.error = ErrTimeout]
                ELSE db.nodes[u]],
   attributes |-> {r \in db.attributes : r.uuid \notin uuids},
   options |-> {r \in db.options : r.uuid \notin uuids}]

\* mutant of clean_up: "if timeout <= 0: return []" is missing
clean_upAlwaysTimesOut(db, t, tmo) ==
  LET db1 == DropOutdated(db, t)
      uuids == SelectTimedOut(db1, t - tmo)
  IN IF uuids = {} THEN [db |-> db1, uuids |-> {}]
     ELSE [db |-> FinishTimedOut(db1, uuids, t - tmo, t), uuids |-> uuids]

\* clean_up() at time t with CONF.timeout = tmo: the database afterwards and
\* the uuids returned
clean_up(db, t, tmo) ==
  LET db1 == DropOutdated(db, t)
      uuids == SelectTimedOut(db1, t - tmo)
  IN IF tmo <= 0 THEN [db |-> db1, uuids |-> {}]
     ELSE IF uuids = {} THEN [db |-> db1, uuids |-> {}]
     ELSE [db |-> FinishTimedOut(db1, uuids, t - tmo, t), uuids |-> uuids]

\* ------------------------------------------------------------ state machine
Store(db) ==
  /\ nodes' = db.nodes
  /\ attributes' = db.attributes
  /\ options' = db.options

Init ==
  /\ nodes = << >>
  /\ attributes = {}
  /\ options = {}
  /\ tasks = << >>
  /\ now = 1
  /\ timeout = Timeout

\* time passes
Tick ==
  /\ now < MaxTime
  /\ now' = now + 1
  /\ UNCHANGED <<nodes, attributes, options, tasks, timeout>>

\* node_cache.add_node(uuid, **attrs); a DuplicateAttribute error leaves the
\* database as the rollback left it
AddNode(uuid, attrs) ==
  /\ Store(add_node(Db, uuid, attrs, now).db)
  /\ UNCHANGED <<tasks, now, timeout>>

\* node_info.add_attribute(name, vals) on a handle got from the cache
AddAttribute(uuid, name, vals) ==
  /\ uuid \in DOMAIN nodes
  /\ Store(add_attribute(Db, uuid, name, vals, TRUE).db)
  /\ UNCHANGED <<tasks, now, timeout>>

\* node_info.set_option(name, value) on a handle got from the cache
SetOption(uuid, value) ==
  /\ uuid \in DOMAIN nodes
  /\ Store(set_option(Db, uuid, OPTION_CREDENTIALS, value))
  /\ UNCHANGED <<tasks, now, timeout>>

\* node_info.finished(error) on a handle got from the cache
Finished(uuid, error) ==
  /\ uuid \in DOMAIN nodes
  /\ Store(finished(Db, uuid, error, now))
  /\ UNCHANGED <<tasks, now, timeout>>

\* node_cache.clean_up(), the periodic sweep
CleanUp ==
  /\ Store(clean_up(Db, now, timeout).db)
  /\ UNCHANGED <<tasks, now, timeout>>

\* ------------------------------------------------------------ introspect.py
\* outcomes of steps 1-3 of introspect: node fetch, provision state, credentials
\* or power-interface validation
PrecheckErrors ==
  {"NotFound", "HttpError", "InvalidState", "InvalidCredentials", "PowerValidation"}

\* "if new_ipmi_credentials: _validate_ipmi_credentials(...) else:
\* ironic.node.validate": which checks a request can fail
PrecheckOutcomes(creds) ==
  {"ok", "NotFound", "HttpError", "InvalidState"}
    \cup (IF creds # NoCredentials THEN {"InvalidCredentials"} ELSE {"PowerValidation"})

\* the NodeInfo a background task holds (uuid and cached options; nothing
\* reads its started_at), the MACs it has listed and not yet stored, where it
\* stands and the error it ended with
Task(uuid, creds) ==
  [uuid |-> uuid, options |-> creds, macs |-> <<>>, pc |-> "ports",
   error |-> NullText]

\* mutant of AfterMacs: the power branch is taken whatever the option holds
AfterMacsAlwaysPower(task) == "boot"

\* "if not node_info.options.get('new_ipmi_credentials')": the power branch is
\* taken when the cached option is None
AfterMacs(task) == IF task.options = NoCredentials THEN "boot" ELSE "done"

\* add_node(node.uuid, bmc_address=...): the only attribute passed
BmcOnly(bmc) == [n \in Names |-> IF n = BMC_ATTRIBUTE THEN bmc ELSE <<>>]

\* mutant of introspect: the session is created before the checks of steps 1-3
introspectCreateFirst(db, tsk, uuid, pre, creds, bmc, t) ==
  LET r == add_node(db, uuid, BmcOnly(bmc), t)
  IN IF ~r.ok
     THEN [raised |-> "DuplicateAttribute", db |-> r.db, tasks |-> tsk]
     ELSE IF pre # "ok"
     THEN [raised |-> pre, db |-> r.db, tasks |-> tsk]
     ELSE [raised |-> "none",
           db |-> set_option(r.db, uuid, OPTION_CREDENTIALS, creds),
           tasks |-> Append(tsk, Task(uuid, creds))]

\* introspect(uuid, new_ipmi_credentials) at time t: steps 1-3 raise `pre` to
\* the caller; then add_node, whose Error is not caught here, set_option and
\* spawn_n, with no remote call in between.  The result is what the caller
\* sees raised, the database and the background tasks afterwards.
introspect(db, tsk, uuid, pre, creds, bmc, t) ==
  LET r == add_node(db, uuid, BmcOnly(bmc), t)
  IN IF pre # "ok"
     THEN [raised |-> pre, db |-> db, tasks |-> tsk]
     ELSE IF ~r.ok
     THEN [raised |-> "DuplicateAttribute", db |-> r.db, tasks |-> tsk]
     ELSE [raised |-> "none",
           db |-> set_option(r.db, uuid, OPTION_CREDENTIALS, creds),
           tasks |-> Append(tsk, Task(uuid, creds))]

Introspect(uuid, pre, creds, bmc) ==
  LET r == introspect(Db, tasks, uuid, pre, creds, bmc, now)
  IN /\ Len(tasks) < MaxTasks
     /\ pre \in PrecheckOutcomes(creds)
     /\ Store(r.db)
     /\ tasks' = r.tasks
     /\ UNCHANGED <<now, timeout>>

\* Each step of the background task is an operator from the database, the
\* task and the outcome of the step's remote call to the database and the
\* task afterwards.

\* mutant of TaskFails: the exception is swallowed, finished() is not called
TaskFailsSilently(db, task, error, t) ==
  [db |-> db,
   task |-> [task EXCEPT !.pc = "done", !.error = error, !.macs = <<>>]]

\* _handle_exceptions: an exception of the task ends it with
\* node_info.finished(error=...)
TaskFails(db, task, error, t) ==
  [db |-> finished(db, task.uuid, error, t),
   task |-> [task EXCEPT !.pc = "done", !.error = error, !.macs = <<>>]]

\* outcomes of node_info.ports(ironic): the remote call fails or lists ports
PortOutcomes ==
  {[ok |-> FALSE, macs |-> <<>>]} \cup {[ok |-> TRUE, macs |-> l] : l \in PortLists}

\* macs = list(node_info.ports(ironic)); "if macs:"
ListPorts(db, task, out, t) ==
  IF ~out.ok THEN TaskFails(db, task, ErrUnexpected, t)
  ELSE [db |-> db,
        task |-> [task EXCEPT !.macs = out.macs,
                    !.pc = IF out.macs = <<>> THEN AfterMacs(task) ELSE "attr"]]

\* node_info.add_attribute(MACS_ATTRIBUTE, macs)
RegisterMacs(db, task, t) ==
  LET r == add_attribute(db, task.uuid, MACS_ATTRIBUTE, task.macs, TRUE)
  IN IF r.ok
     THEN [db |-> r.db, task |-> [task EXCEPT !.pc = "fw", !.macs = <<>>]]
     ELSE TaskFails(db, task, ErrDuplicate, t)

\* firewall.update_filters(ironic)
UpdateFilters(db, task, ok, t) ==
  IF ok THEN [db |-> db, task |-> [task EXCEPT !.pc = AfterMacs(task)]]
  ELSE TaskFails(db, task, ErrUnexpected, t)

\* mutant of SetBootDevice: the exception is not caught inside the task body
SetBootDeviceFatal(db, task, ok, t) ==
  IF ok THEN [db |-> db, task |-> [task EXCEPT !.pc = "power"]]
  ELSE TaskFails(db, task, ErrUnexpected, t)

\* ironic.node.set_boot_device(uuid, 'pxe'): a failure is only logged
SetBootDevice(db, task, ok, t) ==
  [db |-> db, task |-> [task EXCEPT !.pc = "power"]]

\* ironic.node.set_power_state(uuid, 'reboot'): a failure is raised as Error
SetPowerState(db, task, ok, t) ==
  IF ok THEN [db |-> db, task |-> [task EXCEPT !.pc = "done"]]
  ELSE TaskFails(db, task, ErrPower, t)

\* task i has made the step with result r
TaskDoes(i, r) ==
  /\ Store(r.db)
  /\ tasks' = [tasks EXCEPT ![i] = r.task]
  /\ UNCHANGED <<now, timeout>>

TaskPorts(i) ==
  /\ tasks[i].pc = "ports"
  /\ \E out \in PortOutcomes : TaskDoes(i, ListPorts(Db, tasks[i], out, now))

TaskAttributes(i) ==
  /\ tasks[i].pc = "attr"
  /\ TaskDoes(i, RegisterMacs(Db, tasks[i], now))

TaskFirewall(i) ==
  /\ tasks[i].pc = "fw"
  /\ \E ok \in BOOLEAN : TaskDoes(i, UpdateFilters(Db, tasks[i], ok, now))

TaskBootDevice(i) ==
  /\ tasks[i].pc = "boot"
  /\ \E ok \in BOOLEAN : TaskDoes(i, SetBootDevice(Db, tasks[i], ok, now))

TaskPower(i) ==
  /\ tasks[i].pc = "power"
  /\ \E ok \in BOOLEAN : TaskDoes(i, SetPowerState(Db, tasks[i], ok, now))

TaskStep(i) ==
  \/ TaskPorts(i)
  \/ TaskAttributes(i)
  \/ TaskFirewall(i)
  \/ TaskBootDevice(i)
  \/ TaskPower(i)

\* The cache used as a library: any caller, any order.
Next ==
  \/ Tick
  \/ \E u \in UUIDs, a \in AttributeArgs : AddNode(u, a)
  \/ \E u \in UUIDs, n \in Names : \E l \in ValueLists(n) : AddAttribute(u, n, l)
  \/ \E u \in UUIDs : SetOption(u, Credentials)
  \/ \E u \in UUIDs : Finished(u, NullText)
  \/ CleanUp

Spec == Init /\ [][Next]_vars

\* The same callers under any configured CONF.timeout, the values that
\* disable the timeout included.
InitSweep ==
  /\ nodes = << >>
  /\ attributes = {}
  /\ options = {}
  /\ tasks = << >>
  /\ now = 1
  /\ timeout \in TimeoutValues

SpecSweep == InitSweep /\ [][Next]_vars

\* The service: introspection requests, their background tasks, the
\* processing that finishes a session, and the periodic sweep.
NextIntrospect ==
  \/ Tick
  \/ \E u \in UUIDs, pre \in {"ok"} \cup PrecheckErrors, c \in CredentialValues, b \in BmcArgs :
       Introspect(u, pre, c, b)
  \/ \E i \in DOMAIN tasks : TaskStep(i)
  \/ \E u \in UUIDs : Finished(u, NullText)
  \/ CleanUp

SpecIntrospect == Init /\ [][NextIntrospect]_vars

\* ------------------------------------------------------------ properties
Active(u) == u \in DOMAIN nodes /\ nodes[u].finished_at = NullTime
Holders(attrs, name, v) == {r.uuid : r \in {x \in attrs : x.name = name /\ x.value = v}}
AttributesOf(attrs, u) == {r \in attrs : r.uuid = u}
OptionsOf(opts, u) == {r \in opts : r.uuid = u}
Listed(l, v) == \E i \in DOMAIN l : l[i] = v
NoRepeat(l) == \A i, j \in DOMAIN l : l[i] = l[j] => i = j

\* C1: in every reachable state of the store, each (attribute name, attribute
\* value) pair is held by at most one session id.
C1_UniqueAttribute ==
  \A r1, r2 \in attributes :
    (r1.name = r2.name /\ r1.value = r2.value) => r1.uuid = r2.uuid

\* two sessions hold values of the same attribute name side by side
C1_Witness ==
  \E r1, r2 \in attributes :
    /\ r1.uuid # r2.uuid /\ r1.name = r2.name
    /\ Active(r1.uuid) /\ Active(r2.uuid)

\* C2: add_attribute called with a list of which at least one value is already
\* held (by any session, the caller included) raises DuplicateAttribute and
\* leaves the three tables as they were: none of the list's values is inserted,
\* the free ones included.
C2_RejectedAttachChangesNothing ==
  \A u \in DOMAIN nodes, n \in Names :
    \A l \in ValueLists(n) :
      (\E i \in DOMAIN l : HasKey(attributes, n, l[i]))
        => LET r == add_attribute(Db, u, n, l, TRUE)
           IN ~r.ok /\ r.db = Db

\* a call that is rejected after a free value was inserted: the first value
\* of the list is free, the second is held by another session
C2_Witness ==
  \E u \in DOMAIN nodes : \E l \in ValueLists(MACS_ATTRIBUTE) :
    /\ Len(l) = 2
    /\ Holders(attributes, MACS_ATTRIBUTE, l[1]) = {}
    /\ Holders(attributes, MACS_ATTRIBUTE, l[2]) \notin {{}, {u}}
    /\ ~add_attribute(Db, u, MACS_ATTRIBUTE, l, TRUE).ok

\* C3: two sessions that both call add_attribute for lists of free values with
\* a value in common, in either order: the first call succeeds, the second
\* raises DuplicateAttribute and changes nothing, and the common values are
\* held by the first caller alone.
C3_RaceHasOneWinner ==
  \A u1, u2 \in DOMAIN nodes, n \in Names :
    \A l1, l2 \in ValueLists(n) :
      ( /\ u1 # u2
        /\ NoRepeat(l1) /\ NoRepeat(l2)
        /\ \A v \in ValuesOf(n) :
             (Listed(l1, v) \/ Listed(l2, v)) => ~HasKey(attributes, n, v)
        /\ \E v \in ValuesOf(n) : Listed(l1, v) /\ Listed(l2, v) )
      => LET r1 == add_attribute(Db, u1, n, l1, TRUE)
             r2 == add_attribute(r1.db, u2, n, l2, TRUE)
         IN /\ r1.ok
            /\ ~r2.ok
            /\ r2.db = r1.db
            /\ \A v \in ValuesOf(n) :
                 Listed(l1, v) => Holders(r2.db.attributes, n, v) = {u1}

\* the state after such a race: one active session holds the MAC, the other
\* active session does not and its call for it is refused
C3_Witness ==
  \E u1, u2 \in DOMAIN nodes : \E v \in MacValues :
    /\ u1 # u2 /\ Active(u1) /\ Active(u2)
    /\ Holders(attributes, MACS_ATTRIBUTE, v) = {u1}
    /\ ~add_attribute(Db, u2, MACS_ATTRIBUTE, <<v>>, TRUE).ok

\* C4: in every reachable state of the service, every attribute row and every
\* option row belongs to a session whose row exists and whose finished_at is
\* absent: a finished or purged session holds no attributes and no options.
C4_RowsOnlyOfActiveSessions ==
  /\ \A r \in attributes : Active(r.uuid)
  /\ \A r \in options : Active(r.uuid)

\* C5: within one lifetime of a session finished_at is set at most once: a
\* step that does not re-create the session (which resets finished_at) leaves
\* a finished_at that is set as it is.
C5_FinishedAtSetOnce ==
  [][\A u \in DOMAIN nodes :
       ( /\ nodes[u].finished_at # NullTime
         /\ u \in DOMAIN nodes'
         /\ nodes'[u].finished_at # NullTime )
       => nodes'[u].finished_at = nodes[u].finished_at]_vars

\* C6: once the sweep has finished a session with "Introspection timeout", no
\* step of a background task changes the recorded error or makes the session
\* active again.
C6_TimeoutErrorStays ==
  [][\A u \in DOMAIN nodes :
       ( /\ nodes[u].finished_at # NullTime
         /\ nodes[u].error = ErrTimeout
         /\ tasks' # tasks
         /\ Len(tasks') = Len(tasks) )
       => /\ u \in DOMAIN nodes'
          /\ nodes'[u].finished_at # NullTime
          /\ nodes'[u].error = ErrTimeout]_vars

\* rows add_node(uuid, **a) is asked to insert
Requested(u, a) ==
  UNION {{[name |-> n, value |-> a[n][i], uuid |-> u] : i \in DOMAIN a[n]} : n \in Names}
\* find_node(name=value)
Lookup(name, v) == [n \in Names |-> IF n = name THEN <<v>> ELSE <<>>]

\* C7: a successful add_node for a uuid that already has a row replaces the
\* session in one transaction: the row is fresh (started_at = now, finished_at
\* and error NULL), the session holds exactly the requested attributes and no
\* options, and find_node on a former value of the old session raises
\* NotFoundInCache unless the new session claims the value.
C7_CreateReplaces ==
  \A u \in DOMAIN nodes : \A a \in AttributeArgs :
    LET r == add_node(Db, u, a, now)
    IN r.ok =>
         /\ r.db.nodes[u] = [started_at |-> now, finished_at |-> NullTime,
                             error |-> NullText]
         /\ AttributesOf(r.db.attributes, u) = Requested(u, a)
         /\ OptionsOf(r.db.options, u) = {}
         /\ \A old \in AttributesOf(attributes, u) :
              LET f == find_node(r.db, Lookup(old.name, old.value))
              IN IF Listed(a[old.name], old.value)
                 THEN f.res = "ok" /\ f.uuid = u /\ f.at = now
                 ELSE f.res = "NotFoundInCache"

\* a session with an attribute and an option, about to be replaced by a
\* create that succeeds and does not claim the old value again
C7_Witness ==
  \E u \in DOMAIN nodes : \E a \in AttributeArgs :
    /\ OptionsOf(options, u) # {}
    /\ \E old \in AttributesOf(attributes, u) : ~Listed(a[old.name], old.value)
    /\ \E n \in Names : a[n] # <<>>
    /\ nodes[u].started_at < now
    /\ add_node(Db, u, a, now).ok

\* C8: add_node that asks for a value held by another session raises
\* DuplicateAttribute and commits nothing: the three tables are as before.
C8_FailedCreateCommitsNothing ==
  \A u \in UUIDs : \A a \in AttributeArgs :
    (\E row \in Requested(u, a) : Holders(attributes, row.name, row.value) \notin {{}, {u}})
      => LET r == add_node(Db, u, a, now)
         IN ~r.ok /\ r.db = Db

\* a session with an attribute and an option, whose re-creation asks for a
\* free MAC and for the BMC address another session holds
C8_Witness ==
  \E u \in DOMAIN nodes : \E a \in AttributeArgs :
    /\ OptionsOf(options, u) # {}
    /\ AttributesOf(attributes, u) # {}
    /\ \E row \in Requested(u, a) : Holders(attributes, row.name, row.value) = {}
    /\ \E row \in Requested(u, a) : Holders(attributes, row.name, row.value) \notin {{}, {u}}
    /\ ~add_node(Db, u, a, now).ok

\* the uuids holding any (name, value) listed in the criteria
Matching(c) == {r.uuid : r \in {x \in attributes : Listed(c[x.name], x.value)}}

\* C9: find_node raises NotFoundInCache iff no uuid holds a listed value,
\* raises the multiple-match error iff two or more do, and for exactly one
\* uuid returns uuid and started_at of an active session and raises "already
\* finished" for a finished one.
C9_FindIsUnion ==
  \A c \in Criteria :
    LET f == find_node(Db, c)
        m == Matching(c)
    IN /\ (f.res = "NotFoundInCache") <=> (m = {})
       /\ (f.res = "Multiple") <=> (Cardinality(m) >= 2)
       /\ \A u \in m :
            (m = {u} /\ u \in DOMAIN nodes) =>
              IF nodes[u].finished_at = NullTime
              THEN f.res = "ok" /\ f.uuid = u /\ f.at = nodes[u].started_at
              ELSE f.res = "AlreadyFinished" /\ f.uuid = u

\* a lookup by two names that finds the session matching only one of them
C9_Witness ==
  \E c \in Criteria : \E u \in DOMAIN nodes :
    /\ \A n \in Names : c[n] # <<>>
    /\ find_node(Db, c).res = "ok" /\ find_node(Db, c).uuid = u
    /\ \E n \in Names : \A r \in AttributesOf(attributes, u) :
         r.name = n => ~Listed(c[n], r.value)

\* the sessions a sweep at this moment has to time out
Stale == {u \in DOMAIN nodes :
            nodes[u].finished_at = NullTime /\ nodes[u].started_at < now - timeout}

\* C10: with a positive timeout clean_up returns exactly the active sessions
\* started before now - timeout, and each of them is left with finished_at
\* set, error "Introspection timeout" and no attribute or option row.
C10_SweepTimesOut ==
  timeout > 0 =>
    LET r == clean_up(Db, now, timeout)
    IN /\ r.uuids = Stale
       /\ \A u \in Stale :
            /\ u \in DOMAIN r.db.nodes
            /\ r.db.nodes[u].finished_at = now
            /\ r.db.nodes[u].error = ErrTimeout
            /\ AttributesOf(r.db.attributes, u) = {}
            /\ OptionsOf(r.db.options, u) = {}

\* a sweep has just timed a session out while another session stays active
C10_Witness ==
  \E u, w \in DOMAIN nodes :
    /\ nodes[u].error = ErrTimeout /\ nodes[u].finished_at = now
    /\ AttributesOf(attributes, u) = {} /\ OptionsOf(options, u) = {}
    /\ Active(w) /\ AttributesOf(attributes, w) # {}

\* C11: running clean_up twice in immediate succession (same clock reading,
\* nothing in between): the second run returns no uuid and leaves the database
\* exactly as the first run left it, the sessions the first run timed out
\* included.
C11_SweepIdempotent ==
  LET r1 == clean_up(Db, now, timeout)
      r2 == clean_up(r1.db, now, timeout)
  IN /\ r2.uuids = {}
     /\ r2.db = r1.db
     /\ \A u \in r1.uuids :
          u \in DOMAIN r2.db.nodes /\ r2.db.nodes[u] = r1.db.nodes[u]

\* a sweep has just timed out every stale session, one of them at least, and
\* a second sweep at the same moment finds nothing to do
C11_Witness ==
  /\ \E u \in DOMAIN nodes : nodes[u].error = ErrTimeout /\ nodes[u].finished_at = now
  /\ Stale = {}
  /\ clean_up(Db, now, timeout) = [db |-> Db, uuids |-> {}]

\* is a row finished at time f deleted by a sweep at time t
Outdated(f, t) == f # NullTime /\ f < t - KeepTime

\* C12: right after finished() get_node returns the row with finished_at set
\* and the session has no attribute and no option; a sweep at any later time
\* keeps the row as it is while finished_at is not below the keep threshold
\* and deletes it once it is, after which get_node raises NotFound; a sweep
\* never deletes the row of an active session.
C12_FinishedRowRetention ==
  /\ \A u \in DOMAIN nodes : \A e \in {NullText, ErrPower} :
       LET d == finished(Db, u, e, now)
           g == get_node(d, u)
       IN /\ g.res = "ok"
          /\ g.row.finished_at = now /\ g.row.error = e
          /\ AttributesOf(d.attributes, u) = {}
          /\ OptionsOf(d.options, u) = {}
          /\ \A t \in now..MaxTime :
               LET s == clean_up(d, t, timeout).db
               IN IF Outdated(now, t)
                  THEN get_node(s, u).res = "NotFound"
                  ELSE get_node(s, u) = g
  /\ \A u \in DOMAIN nodes :
       LET s == clean_up(Db, now, timeout).db
       IN IF Outdated(nodes[u].finished_at, now)
          THEN get_node(s, u).res = "NotFound"
          ELSE IF nodes[u].finished_at # NullTime
          THEN get_node(s, u) = get_node(Db, u)
          ELSE get_node(s, u).res = "ok"

\* a finished row that has become older than the keep threshold, next to an
\* equally old session that is still active: the sweep deletes the first only
C12_Witness ==
  \E u, w \in DOMAIN nodes :
    /\ Outdated(nodes[u].finished_at, now)
    /\ Active(w) /\ nodes[w].started_at < now - KeepTime
    /\ get_node(clean_up(Db, now, timeout).db, u).res = "NotFound"
    /\ get_node(clean_up(Db, now, timeout).db, w).res = "ok"

\* C13: while session m1 holds (name, v), add_attribute(name, [v]) of another
\* session m2 raises DuplicateAttribute; the same call succeeds once m1 is
\* finished, by finished() or by the sweep timing m1 out.
C13_FinishFreesValues ==
  \A row \in attributes : \A m2 \in DOMAIN nodes :
    (row.uuid \in DOMAIN nodes /\ m2 # row.uuid) =>
      LET m1 == row.uuid
          swept == clean_up(Db, now, timeout)
      IN /\ ~add_attribute(Db, m2, row.name, <<row.value>>, TRUE).ok
         /\ \A e \in {NullText, ErrPower} :
              LET r == add_attribute(finished(Db, m1, e, now), m2,
                                     row.name, <<row.value>>, TRUE)
              IN r.ok /\ Holders(r.db.attributes, row.name, row.value) = {m2}
         /\ m1 \in swept.uuids =>
              LET r == add_attribute(swept.db, m2, row.name, <<row.value>>, TRUE)
              IN r.ok /\ Holders(r.db.attributes, row.name, row.value) = {m2}

\* two active sessions, the first holding a MAC the second is refused now and
\* gets after the first is finished; the sweep is about to time the first out
C13_Witness ==
  \E m1, m2 \in DOMAIN nodes : \E v \in MacValues :
    /\ m1 # m2 /\ Active(m1) /\ Active(m2)
    /\ m1 \in Stale /\ m2 \notin Stale
    /\ Holders(attributes, MACS_ATTRIBUTE, v) = {m1}
    /\ ~add_attribute(Db, m2, MACS_ATTRIBUTE, <<v>>, TRUE).ok
    /\ add_attribute(finished(Db, m1, NullText, now), m2, MACS_ATTRIBUTE, <<v>>, TRUE).ok

\* C14: an introspect request that fails in steps 1-3 raises that error to
\* the caller and changes nothing: the three tables are as before (a session
\* of the same uuid included) and no background task is spawned.
C14_PrecheckFailureChangesNothing ==
  \A u \in UUIDs, c \in CredentialValues, b \in BmcArgs :
    \A pre \in PrecheckOutcomes(c) \ {"ok"} :
      LET r == introspect(Db, tasks, u, pre, c, b, now)
      IN r.raised = pre /\ r.db = Db /\ r.tasks = tasks

\* an active session with its BMC address, a MAC and an option, started
\* earlier, for whose uuid a new request fails the node fetch
C14_Witness ==
  \E u \in DOMAIN nodes :
    /\ Active(u) /\ nodes[u].started_at < now
    /\ \A n \in Names : \E r \in AttributesOf(attributes, u) : r.name = n
    /\ OptionsOf(options, u) # {}
    /\ Len(tasks) < MaxTasks
    /\ introspect(Db, tasks, u, "NotFound", NoCredentials, <<"10.0.0.1">>, now).raised
         = "NotFound"

\* C15: once steps 1-3 have passed, introspect raises nothing to its caller
\* and has scheduled the background task, also when the BMC address is held by
\* another session.
C15_NoErrorAfterPrechecks ==
  \A u \in UUIDs, c \in CredentialValues, b \in BmcArgs :
    LET r == introspect(Db, tasks, u, "ok", c, b, now)
    IN r.raised = "none" /\ Len(r.tasks) = Len(tasks) + 1

\* the results of the step a task can make next, one per outcome of the
\* step's remote call
TaskOutcomes(db, task, t) ==
  IF task.pc = "ports" THEN {ListPorts(db, task, out, t) : out \in PortOutcomes}
  ELSE IF task.pc = "attr" THEN {RegisterMacs(db, task, t)}
  ELSE IF task.pc = "fw" THEN {UpdateFilters(db, task, ok, t) : ok \in BOOLEAN}
  ELSE IF task.pc = "boot" THEN {SetBootDevice(db, task, ok, t) : ok \in BOOLEAN}
  ELSE IF task.pc = "power" THEN {SetPowerState(db, task, ok, t) : ok \in BOOLEAN}
  ELSE {}

\* those of them in which the step fails: port listing, MAC registration,
\* firewall update or power reboot raises
FailedSteps(db, task, t) ==
  IF task.pc = "ports" THEN {ListPorts(db, task, [ok |-> FALSE, macs |-> <<>>], t)}
  ELSE IF task.pc = "attr"
  THEN IF add_attribute(db, task.uuid, MACS_ATTRIBUTE, task.macs, TRUE).ok
       THEN {} ELSE {RegisterMacs(db, task, t)}
  ELSE IF task.pc = "fw" THEN {UpdateFilters(db, task, FALSE, t)}
  ELSE IF task.pc = "power" THEN {SetPowerState(db, task, FALSE, t)}
  ELSE {}

\* C16 as stated: a failing step of a task ends the task with the error
\* recorded, and then the session has finished_at set and an error; a task
\* that ends without failure has not changed the database in its last step.
C16_TaskNeverLeavesSessionUnresolved ==
  \A i \in DOMAIN tasks :
    LET u == tasks[i].uuid
    IN /\ \A r \in FailedSteps(Db, tasks[i], now) :
            /\ r.task.pc = "done" /\ r.task.error # NullText
            /\ u \in DOMAIN r.db.nodes
            /\ r.db.nodes[u].finished_at # NullTime
            /\ r.db.nodes[u].error # NullText
       /\ \A r \in TaskOutcomes(Db, tasks[i], now) \ FailedSteps(Db, tasks[i], now) :
            r.task.error = NullText /\ (r.task.pc = "done" => r.db = Db)

\* C16, amended: a failing step of a task ends the task with the error
\* recorded; if the session's row exists at that moment it has finished_at =
\* now and that error afterwards and the session has no attributes or options,
\* and if the row has been deleted by the sweep the database is left as it
\* is; a task that ends without failure has not changed the database in its
\* last step.
C16_TaskResolvesExistingSession ==
  \A i \in DOMAIN tasks :
    LET u == tasks[i].uuid
    IN /\ \A r \in FailedSteps(Db, tasks[i], now) :
            /\ r.task.pc = "done" /\ r.task.error # NullText
            /\ IF u \in DOMAIN nodes
               THEN /\ u \in DOMAIN r.db.nodes
                    /\ r.db.nodes[u].finished_at = now
                    /\ r.db.nodes[u].error = r.task.error
                    /\ AttributesOf(r.db.attributes, u) = {}
                    /\ OptionsOf(r.db.options, u) = {}
               ELSE /\ r.db.nodes = nodes
                    /\ u \notin DOMAIN r.db.nodes
       /\ \A r \in TaskOutcomes(Db, tasks[i], now) \ FailedSteps(Db, tasks[i], now) :
            r.task.error = NullText /\ (r.task.pc = "done" => r.db = Db)

\* a task has just ended on a refused MAC registration and its session is
\* finished with that error, while another session is active
C16_Witness ==
  \E i \in DOMAIN tasks : \E w \in DOMAIN nodes :
    /\ tasks[i].pc = "done" /\ tasks[i].error = ErrDuplicate
    /\ tasks[i].uuid \in DOMAIN nodes
    /\ nodes[tasks[i].uuid].finished_at = now
    /\ nodes[tasks[i].uuid].error = ErrDuplicate
    /\ w # tasks[i].uuid /\ Active(w)

\* C17: in a task of a request without new credentials the reboot is
\* requested only directly after the set_boot_device call; set_boot_device,
\* failed or not, leaves the database as it is and the task about to request
\* the reboot; a failed reboot request ends the task with finished(error) for
\* its session, whose row then has finished_at and the power error.
C17_BootDeviceThenReboot ==
  \A i \in DOMAIN tasks :
    LET tk == tasks[i]
        u == tasks[i].uuid
    IN /\ \A r \in TaskOutcomes(Db, tk, now) :
            /\ r.task.pc = "power" => tk.pc = "boot"
            /\ (tk.options = NoCredentials /\ r.task.pc = "done" /\ r.task.error = NullText)
                 => tk.pc = "power"
       /\ tk.pc = "boot" =>
            \A ok \in BOOLEAN :
              SetBootDevice(Db, tk, ok, now)
                = [db |-> Db, task |-> [tk EXCEPT !.pc = "power"]]
       /\ tk.pc = "power" =>
            LET r == SetPowerState(Db, tk, FALSE, now)
            IN /\ tk.options = NoCredentials
               /\ r.task.pc = "done" /\ r.task.error = ErrPower
               /\ r.db = finished(Db, u, ErrPower, now)
               /\ u \in DOMAIN nodes =>
                    /\ r.db.nodes[u].finished_at = now
                    /\ r.db.nodes[u].error = ErrPower

\* a task without new credentials has called set_boot_device and is about to
\* request the reboot of its active session, whose MAC is registered
C17_Witness ==
  \E i \in DOMAIN tasks :
    /\ tasks[i].pc = "power" /\ tasks[i].options = NoCredentials
    /\ Active(tasks[i].uuid)
    /\ \E r \in AttributesOf(attributes, tasks[i].uuid) : r.name = MACS_ATTRIBUTE

\* the task spawned by the request with result r0, run from its start with
\* no step failing and nothing in between: ports listed, MACs registered,
\* firewall updated
RunFromRequest(r0, ports, t) ==
  LET r1 == ListPorts(r0.db, r0.tasks[Len(r0.tasks)], [ok |-> TRUE, macs |-> ports], t)
      r2 == IF r1.task.pc = "attr" THEN RegisterMacs(r1.db, r1.task, t) ELSE r1
  IN IF r2.task.pc = "fw" THEN UpdateFilters(r2.db, r2.task, TRUE, t) ELSE r2

C19_SweepFrame ==
  LET r == clean_up(Db, now, timeout)
  IN /\ DOMAIN r.db.nodes = {u \in DOMAIN nodes : ~Outdated(nodes[u].finished_at, now)}
     /\ \A u \in DOMAIN r.db.nodes :
          IF r.db.nodes[u] # nodes[u]
          THEN /\ timeout > 0
               /\ nodes[u].finished_at = NullTime
               /\ nodes[u].started_at < now - timeout
               /\ u \in r.uuids
               /\ r.db.nodes[u] = [nodes[u] EXCEPT !.finished_at = now,
                                                   !.error = ErrTimeout]
          ELSE u \notin r.uuids
     /\ r.uuids \subseteq DOMAIN r.db.nodes
     /\ r.db.attributes = {x \in attributes : x.uuid \notin r.uuids}
     /\ r.db.options = {x \in options : x.uuid \notin r.uuids}
     /\ timeout <= 0 =>
          /\ r.uuids = {}
          /\ r.db.attributes = attributes /\ r.db.options = options
          /\ \A u \in DOMAIN r.db.nodes : r.db.nodes[u] = nodes[u]

\* with the timeout disabled: an active session older than any positive
\* timeout of the clock's range and a finished row past the keep threshold
C19_Witness ==
  /\ timeout <= 0
  /\ \E u, w \in DOMAIN nodes :
       /\ Active(u) /\ nodes[u].started_at < now - 1
       /\ AttributesOf(attributes, u) # {}
       /\ Outdated(nodes[w].finished_at, now)
       /\ clean_up(Db, now, timeout).db.nodes = [x \in {u} |-> nodes[u]]

\* C20: a step of a task whose session has been created anew since (a later
\* request for the same uuid has spawned its own task) does not change the
\* row of the new session and adds no attribute to it.
C20_OldHandleLeavesNewLifetimeAlone ==
  \A i, j \in DOMAIN tasks :
    (i < j /\ tasks[i].uuid = tasks[j].uuid /\ tasks[i].uuid \in DOMAIN nodes) =>
      \A r \in TaskOutcomes(Db, tasks[i], now) :
        /\ r.db.nodes[tasks[i].uuid] = nodes[tasks[i].uuid]
        /\ AttributesOf(r.db.attributes, tasks[i].uuid)
             \subseteq AttributesOf(attributes, tasks[i].uuid)
====
